---- MODULE Spec2Model ----
(***************************************************************************)
(* Solar Rooftop Analyzer (src/app.py): the Streamlit page script, the     *)
(* analysis call it makes and the session slot it keeps.                   *)
(*                                                                         *)
(* A Python str is a sequence of tokens; a token is a pair.  Punctuation   *)
(* and prose are one character each, P(c); a JSON member `"key": lexeme`   *)
(* is one token M(key, lexeme), which contains no brace.                   *)
(***************************************************************************)
EXTENDS Integers, Sequences, FiniteSets, TLC

\* ------------------------------------------------------------------ bounds
MaxLen == 5        \* longest reply text handed to a direct call of the analysis
MaxCalls == 3      \* external calls issued by one page session

\* ------------------------------------------------------------- Python values
None == <<>>
Some(x) == <<x>>

P(c) == <<c, "">>
M(k, lexeme) == <<k, lexeme>>
LBRACE == P("{")
RBRACE == P("}")
COMMA == P(",")
WS == P(" ")
PROSE == P("x")

\* the keys display_analysis_results reads, in the order it reads them
FieldOrder ==
  << "solar_suitability_score", "estimated_panel_capacity_kw",
     "annual_energy_production_kwh", "payback_period_years",
     "estimated_installation_cost", "annual_savings",
     "rooftop_area_sqft", "roof_orientation",
     "key_observations", "recommendations" >>

FieldNames == { FieldOrder[i] : i \in 1..Len(FieldOrder) }

\* the fields formatted with the thousands separator, f"{...:,}"
CommaFormatted ==
  { "annual_energy_production_kwh", "estimated_installation_cost",
    "annual_savings", "rooftop_area_sqft" }

\* the fields iterated with enumerate(...)
Enumerated == { "key_observations", "recommendations" }

\* ------------------------------------------------------------ str.find etc.
\* str.find: 0-based index of the first occurrence, -1 when there is none
Find(s, ch) ==
  IF \E i \in 1..Len(s) : s[i] = ch
  THEN (CHOOSE i \in 1..Len(s) : s[i] = ch /\ \A j \in 1..(i - 1) : s[j] # ch) - 1
  ELSE -1

\* str.rfind: 0-based index of the last occurrence, -1 when there is none
RFind(s, ch) ==
  IF \E i \in 1..Len(s) : s[i] = ch
  THEN (CHOOSE i \in 1..Len(s) : s[i] = ch /\ \A j \in (i + 1)..Len(s) : s[j] # ch) - 1
  ELSE -1

\* s[start:stop]: negative indices count from the end, both are clamped
PySlice(s, start, stop) ==
  LET n == Len(s)
      Norm(i) == IF i < 0 THEN (IF i + n < 0 THEN 0 ELSE i + n)
                          ELSE (IF i > n THEN n ELSE i)
      lo == Norm(start)
      hi == Norm(stop)
  IN  IF lo >= hi THEN <<>> ELSE SubSeq(s, lo + 1, hi)

\* ------------------------------------------------------------------- json
\* A dict is the sequence of its <<key, value>> items in insertion order.
\* A value is <<type, repr>>.
\* json.loads yields one and the same NaN object (json.decoder.NaN) for
\* every NaN it reads, so two parsed NaN compare equal by identity
NaN == <<"float", "nan">>

\* the number, string and array lexemes json.loads reads (Python's json
\* accepts NaN and Infinity, and a float too large becomes inf)
ParseValue(lexeme) ==
  CASE lexeme = "8"          -> <<"int", "8">>
    [] lexeme = "12000"      -> <<"int", "12000">>
    [] lexeme = "1.2e4"      -> <<"float", "12000.0">>
    [] lexeme = "12000.0"    -> <<"float", "12000.0">>
    [] lexeme = "1e999"      -> <<"float", "inf">>
    [] lexeme = "Infinity"   -> <<"float", "inf">>
    [] lexeme = "NaN"        -> NaN
    [] lexeme = "null"       -> <<"NoneType", "None">>
    [] lexeme = "\"South\""  -> <<"str", "South">>
    [] lexeme = "[\"flat\"]" -> <<"list", "flat">>

Lexemes ==
  { "8", "12000", "1.2e4", "12000.0", "1e999", "Infinity", "NaN", "null",
    "\"South\"", "[\"flat\"]" }

\* a serialiser that writes null for NaN, as JavaScript's does
FormatValue_null(v) ==
  CASE v[1] = "int"                    -> v[2]
    [] v[1] = "NoneType"               -> "null"
    [] v[1] = "float" /\ v[2] = "nan"  -> "null"
    [] v[1] = "float" /\ v[2] = "inf"  -> "Infinity"
    [] v[1] = "float" /\ v[2] \notin {"nan", "inf"} -> v[2]
    [] v[1] = "str"                    -> "\"" \o v[2] \o "\""
    [] v[1] = "list"                   -> "[\"" \o v[2] \o "\"]"

\* json.dumps of a value (allow_nan is left at its default, True)
FormatValue(v) ==
  CASE v[1] = "int"                    -> v[2]
    [] v[1] = "NoneType"               -> "null"
    [] v[1] = "float" /\ v[2] = "nan"  -> "NaN"
    [] v[1] = "float" /\ v[2] = "inf"  -> "Infinity"
    [] v[1] = "float" /\ v[2] \notin {"nan", "inf"} -> v[2]
    [] v[1] = "str"                    -> "\"" \o v[2] \o "\""
    [] v[1] = "list"                   -> "[\"" \o v[2] \o "\"]"

IsMember(t) == t[1] \in FieldNames /\ t[2] \in Lexemes

Keys(d) == { d[i][1] : i \in 1..Len(d) }

Get(d, k) == d[CHOOSE i \in 1..Len(d) : d[i][1] = k][2]

\* d[k] = v: a key already present keeps its place and takes the new value
DictSet(d, k, v) ==
  IF k \in Keys(d)
  THEN [i \in 1..Len(d) |-> IF d[i][1] = k THEN <<k, v>> ELSE d[i]]
  ELSE Append(d, <<k, v>>)

\* the one element of a singleton set
Only(S) == CHOOSE x \in S : TRUE

RECURSIVE BuildDict(_, _, _)
BuildDict(body, i, d) ==
  IF i >= Len(body) THEN d
  ELSE Only({ BuildDict(body, i + 2, d1) :
                d1 \in { DictSet(d, body[i][1], ParseValue(body[i][2])) } })

StripWs(s) == SelectSeq(s, LAMBDA t : t # WS)

\* json.loads: a text of these tokens is a JSON document only when it is one
\* object, `{` member (`,` member)* `}` or `{}`; anything else raises
\* JSONDecodeError (ok = FALSE), the empty text and trailing data included
WellFormed(s) ==
  /\ Len(s) >= 2
  /\ s[1] = LBRACE
  /\ s[Len(s)] = RBRACE
  /\ \/ Len(s) = 2
     \/ /\ Len(s) % 2 = 1
        /\ \A i \in 2..(Len(s) - 1) :
             IF i % 2 = 0 THEN IsMember(s[i]) ELSE s[i] = COMMA

JsonLoads(text) ==
  Only({ IF WellFormed(s)
         THEN [ok |-> TRUE, value |-> BuildDict(s, 2, <<>>)]
         ELSE [ok |-> FALSE, value |-> <<>>] : s \in { StripWs(text) } })

RECURSIVE DumpItems(_, _)
DumpItems(d, i) ==
  IF i > Len(d) THEN <<>>
  ELSE <<WS, M(d[i][1], FormatValue(d[i][2]))>>
         \o (IF i < Len(d) THEN <<COMMA>> ELSE <<WS>>)
         \o DumpItems(d, i + 1)

\* json.dumps(obj, indent=2): None is null, a dict is its items in order,
\* one per indented line
JsonDumps(obj) ==
  IF obj = None THEN <<P("null")>>
  ELSE <<LBRACE>> \o DumpItems(obj[1], 1) \o <<RBRACE>>

\* ------------------------------------------------------------ the inputs
\* an uploaded file as PIL sees it: Image.open is lazy and identifies the
\* format only; mode is the pixel mode of the decoded image
Images ==
  { [name |-> "roofA.jpg", mode |-> "RGB"],
    [name |-> "roofB.jpg", mode |-> "RGB"],
    [name |-> "roofC.png", mode |-> "RGBA"],
    [name |-> "notes.png", mode |-> "undecodable"] }

\* the modes PIL's JPEG writer accepts
JpegModes == { "1", "L", "RGB", "CMYK" }

\* os.getenv("OPENROUTER_API_KEY"): unset, set to the empty string, or set
ApiKeys == { None, Some(""), Some("sk-or-v1") }

\* str(e) of what the client raises; str(Exception()) is the empty string
Exceptions == { <<>>, <<P("Connection error.")>>, <<P("Error code: 401")>> }

Raises(msg) == [kind |-> "raise", exc |-> msg, content |-> None]
Replies(content) == [kind |-> "reply", exc |-> <<>>, content |-> content]
NoUpstream == [kind |-> "none", exc |-> <<>>, content |-> None]

Join(members) ==
  [i \in 1..(2 * Len(members) - 1) |->
     IF i % 2 = 1 THEN members[(i + 1) \div 2] ELSE COMMA]

Object(members) ==
  <<LBRACE>> \o (IF members = <<>> THEN <<>> ELSE Join(members)) \o <<RBRACE>>

\* a member for every field the prompt asks for (get_solar_analysis_prompt)
FullMembers(number) ==
  [i \in 1..Len(FieldOrder) |->
     M(FieldOrder[i],
       CASE FieldOrder[i] = "roof_orientation" -> "\"South\""
         [] FieldOrder[i] \in Enumerated -> "[\"flat\"]"
         [] OTHER -> number)]

WithMember(members, k, lexeme) ==
  [i \in 1..Len(members) |->
     IF members[i][1] = k THEN M(k, lexeme) ELSE members[i]]

Complete == Object(FullMembers("12000"))
CompleteFloat == Object(FullMembers("1.2e4"))
CompleteNaN == Object(WithMember(FullMembers("12000"), "annual_savings", "NaN"))
Partial == Object(<<M("solar_suitability_score", "8")>>)
IllTyped ==
  Object(<< M("solar_suitability_score", "8"),
            M("estimated_panel_capacity_kw", "8"),
            M("annual_energy_production_kwh", "\"South\"") >>)

\* the reply texts a page session draws from
PageReplies ==
  { Complete, CompleteFloat, CompleteNaN, Partial, IllTyped,
    <<LBRACE, RBRACE>>,
    <<PROSE>> \o Complete \o <<PROSE>>,
    Complete \o <<PROSE, RBRACE>>,
    Partial \o <<PROSE>> \o Partial,
    <<PROSE, PROSE>>,
    <<PROSE, RBRACE>>,
    <<>> }

PageUpstream ==
  { Raises(e) : e \in Exceptions }
    \cup { Replies(None) }
    \cup { Replies(Some(t)) : t \in PageReplies }

\* the reply texts a direct call of the analysis draws from: every text of
\* at most MaxLen tokens
Alphabet ==
  { LBRACE, RBRACE, COMMA, PROSE,
    M("solar_suitability_score", "8"), M("annual_savings", "NaN") }

Texts == UNION { [1..n -> Alphabet] : n \in 0..MaxLen }

CallUpstream ==
  { Raises(e) : e \in Exceptions }
    \cup { Replies(None) }
    \cup { Replies(Some(t)) : t \in Texts }

\* ------------------------------------------------------------ the program
\* bool(x) of an Optional[str]
Truthy(x) == x # None /\ x[1] # <<>>

\* OpenAI(api_key=None) raises; any string is accepted
init_openrouter_client(key) ==
  IF key = None
  THEN [raised |-> TRUE,
        msg |-> <<P("The api_key client option must be set")>>]
  ELSE [raised |-> FALSE, msg |-> <<>>]

\* image.save(buffered, format="JPEG") raises OSError for a mode the JPEG
\* writer does not accept
image_to_base64(image) ==
  IF image.mode \in JpegModes
  THEN [raised |-> FALSE, msg |-> <<>>]
  ELSE [raised |-> TRUE,
        msg |-> <<P("cannot write mode " \o image.mode \o " as JPEG")>>]

ParseErrorPrefix == P("Could not parse AI response as JSON: ")
ErrorPrefix == P("Error analyzing image: ")

\* the parse error reports the slice instead of the reply
ParseResponse_slice(analysis_text) ==
  LET start_idx == Find(analysis_text, LBRACE)
      end_idx == RFind(analysis_text, RBRACE) + 1
      json_str == PySlice(analysis_text, start_idx, end_idx)
      loaded == JsonLoads(json_str)
  IN  IF loaded.ok
      THEN [analysis |-> Some(loaded.value), error |-> None]
      ELSE [analysis |-> None,
            error |-> Some(<<ParseErrorPrefix>> \o json_str)]

\* lines 94-102: the span from the first `{` to the last `}`
ParseResponse(analysis_text) ==
  LET start_idx == Find(analysis_text, LBRACE)
      end_idx == RFind(analysis_text, RBRACE) + 1
      json_str == PySlice(analysis_text, start_idx, end_idx)
      loaded == JsonLoads(json_str)
  IN  IF loaded.ok
      THEN [analysis |-> Some(loaded.value), error |-> None]
      ELSE [analysis |-> None,
            error |-> Some(<<ParseErrorPrefix>> \o analysis_text)]

\* the handler returns str(e) alone
Caught_bare(msg) == [analysis |-> None, error |-> Some(msg)]

\* lines 104-105
Caught(msg) == [analysis |-> None, error |-> Some(<<ErrorPrefix>> \o msg)]

\* the return value and the number of calls made to the chat-completion
\* endpoint; up is what the endpoint does when it is called
analyze_rooftop_with_ai(key, image, up) ==
  LET client == init_openrouter_client(key)
      image_base64 == image_to_base64(image)
  IN  IF client.raised THEN [ret |-> Caught(client.msg), calls |-> 0]
      ELSE IF image_base64.raised
        THEN [ret |-> Caught(image_base64.msg), calls |-> 0]
      ELSE IF up.kind = "raise" THEN [ret |-> Caught(up.exc), calls |-> 1]
      ELSE IF up.content = None
        THEN [ret |-> Caught(<<P("'NoneType' object has no attribute 'find'")>>),
              calls |-> 1]
      ELSE [ret |-> ParseResponse(up.content[1]), calls |-> 1]

\* the fields are read with dict.get
FieldFailure_get(d, k) ==
  IF k \notin Keys(d) THEN "ok"
  ELSE IF k \in CommaFormatted /\ Get(d, k)[1] = "str" THEN "ValueError"
  ELSE IF k \in CommaFormatted /\ Get(d, k)[1] = "list" THEN "TypeError"
  ELSE IF k \in Enumerated /\ Get(d, k)[1] \in {"int", "float"} THEN "TypeError"
  ELSE "ok"

\* what the first failing line of display_analysis_results raises, "ok"
\* when every line renders
FieldFailure(d, k) ==
  IF k \notin Keys(d) THEN "KeyError"
  ELSE IF k \in CommaFormatted /\ Get(d, k)[1] = "str" THEN "ValueError"
  ELSE IF k \in CommaFormatted /\ Get(d, k)[1] = "list" THEN "TypeError"
  ELSE IF k \in Enumerated /\ Get(d, k)[1] \in {"int", "float"} THEN "TypeError"
  ELSE "ok"

display_analysis_results(analysis) ==
  IF analysis = None THEN "TypeError"
  ELSE LET d == analysis[1]
           bad == { i \in 1..Len(FieldOrder) : FieldFailure(d, FieldOrder[i]) # "ok" }
       IN  IF bad = {} THEN "ok"
           ELSE FieldFailure(d, FieldOrder[CHOOSE i \in bad : \A j \in bad : i <= j])

\* the assignment is made outside the else branch
StoreResult_always(slot, ret) == Some(ret.analysis)

RECURSIVE Update(_, _, _)
Update(d, e, i) ==
  IF i > Len(e) THEN d
  ELSE Only({ Update(d1, e, i + 1) : d1 \in { DictSet(d, e[i][1], e[i][2]) } })

\* the slot is updated with the new record's items instead of replaced
StoreResult_merge(slot, ret) ==
  IF Truthy(ret.error) THEN slot
  ELSE IF slot = None \/ slot[1] = None THEN Some(ret.analysis)
  ELSE Some(Some(Update(slot[1][1], ret.analysis[1], 1)))

\* the caller's branch on the returned pair (lines 205-214): the new
\* value of the `analysis` slot of st.session_state
StoreResult(slot, ret) ==
  IF Truthy(ret.error) THEN slot ELSE Some(ret.analysis)

Feedback(ret) ==
  IF Truthy(ret.error) THEN {"analysis_failed", "api_key_hint"}
  ELSE {"analysis_complete"}

Run(rendered_, crash_, slot_, ret_, calls_, report_) ==
  [rendered |-> rendered_, crash |-> crash_, slot |-> slot_, ret |-> ret_,
   calls |-> calls_, report |-> report_]

Page == {"title", "sidebar", "file_uploader"}
Columns == {"image", "analyze_button"}
Footer == {"footer"}
Results == {"results_header", "results", "report_button"}

\* lines 203-214, the Analyze button's block: r is None when the button
\* was not clicked in this run, else what analyze_rooftop_with_ai did
AnalyzeBlock(slot, r) ==
  IF r = None
  THEN [rendered |-> {}, slot |-> slot, ret |-> None, calls |-> 0]
  ELSE [rendered |-> Feedback(r[1].ret), slot |-> StoreResult(slot, r[1].ret),
        ret |-> Some(r[1].ret), calls |-> r[1].calls]

\* lines 216-231, the results and the report: b is what the Analyze block
\* left, shown what display_analysis_results did
ResultsBlock(b, shown, clickReport) ==
  LET top == Page \cup Columns \cup b.rendered
  IN  IF shown # "ok"
        THEN Run(top \cup {"results_header"}, shown, b.slot, b.ret, b.calls, None)
      ELSE IF clickReport
        THEN Run(top \cup Results \cup {"download_button"} \cup Footer, "none",
                 b.slot, b.ret, b.calls, Some(JsonDumps(b.slot[1])))
      ELSE Run(top \cup Results \cup Footer, "none", b.slot, b.ret, b.calls, None)

\* one run of main(): upl is the file in the uploader, slot the `analysis`
\* slot of st.session_state (None when the key is not in it), clickAnalyze
\* and clickReport the two buttons' values in this run
main(key, upl, slot, clickAnalyze, clickReport, up) ==
  IF upl = None
    THEN Run(Page \cup Footer, "none", slot, None, 0, None)
  ELSE IF upl[1].mode = "undecodable"
    THEN Run(Page, "UnidentifiedImageError", slot, None, 0, None)
  ELSE Only({
    IF b.slot = None
    THEN Run(Page \cup Columns \cup b.rendered \cup Footer, "none", b.slot,
             b.ret, b.calls, None)
    ELSE Only({ ResultsBlock(b, shown, clickReport) :
                  shown \in { display_analysis_results(b.slot[1]) } }) :
    b \in { AnalyzeBlock(slot,
              IF clickAnalyze
              THEN Some(analyze_rooftop_with_ai(key, upl[1], up))
              ELSE None) } })

\* lines 238-244: the script stops before main() when the key is unset or
\* empty
KeyMissing(key) == key = None \/ key[1] = ""

\* main() is called without the check
Script_unguarded(key, upl, slot, clickAnalyze, clickReport, up) ==
  main(key, upl, slot, clickAnalyze, clickReport, up)

Script(key, upl, slot, clickAnalyze, clickReport, up) ==
  IF KeyMissing(key)
  THEN Run({"key_error"}, "none", slot, None, 0, None)
  ELSE main(key, upl, slot, clickAnalyze, clickReport, up)

\* ---------------------------------------------------------------- state
VARIABLES
  apiKey,        \* os.getenv("OPENROUTER_API_KEY")
  uploaded,      \* the file in st.file_uploader, None when there is none
  session,       \* the `analysis` slot of st.session_state, None when absent
  rendered,      \* the elements the last run of the script put on the page
  crash,         \* the exception that ended the last run, "none" otherwise
  lastEvent,     \* what triggered the last run
  upstream,      \* what the endpoint did in the last run
  ret,           \* what analyze_rooftop_with_ai returned in the last run
  callsThisRun,  \* calls to the endpoint made by the last run
  calls,         \* calls to the endpoint made so far
  report_json,   \* the text handed to st.download_button in the last run
  prevSession,   \* history: session before the last run
  lastSuccess    \* history: the last record an Analyze click got back

vars ==
  << apiKey, uploaded, session, rendered, crash, lastEvent, upstream, ret,
     callsThisRun, calls, report_json, prevSession, lastSuccess >>

\* a browser session opens on the page: nothing has run yet
InitPage ==
  /\ apiKey \in ApiKeys
  /\ uploaded = None
  /\ lastEvent = "none"
  /\ upstream = NoUpstream

\* analyze_rooftop_with_ai is called directly on an image PIL has opened
InitCall ==
  /\ apiKey = Some("sk-or-v1")
  /\ uploaded \in { Some(i) : i \in { j \in Images : j.name \in {"roofA.jpg", "roofC.png"} } }
  /\ lastEvent = "call"
  /\ upstream \in CallUpstream

Init ==
  /\ InitPage \/ InitCall
  /\ session = None
  /\ rendered = {}
  /\ crash = "none"
  /\ ret = None
  /\ callsThisRun = 0
  /\ calls = 0
  /\ report_json = None
  /\ prevSession = None
  /\ lastSuccess = None

Returned(r) == IF r # None /\ r[1].analysis # None THEN r[1].analysis ELSE lastSuccess

\* the script runs top to bottom and leaves its results
Rerun(event, upl, clickAnalyze, clickReport, up) ==
  \E run \in { Script(apiKey, upl, session, clickAnalyze, clickReport, up) } :
      /\ uploaded' = upl
      /\ session' = run.slot
      /\ rendered' = run.rendered
      /\ crash' = run.crash
      /\ lastEvent' = event
      /\ upstream' = up
      /\ ret' = run.ret
      /\ callsThisRun' = run.calls
      /\ calls' = calls + run.calls
      /\ report_json' = run.report
      /\ prevSession' = session
      /\ lastSuccess' = Returned(run.ret)
      /\ UNCHANGED apiKey

Load ==
  /\ lastEvent = "none"
  /\ Rerun("load", uploaded, FALSE, FALSE, NoUpstream)

Upload ==
  /\ "file_uploader" \in rendered
  /\ \E img \in Images : Rerun("upload", Some(img), FALSE, FALSE, NoUpstream)

RemoveUpload ==
  /\ "file_uploader" \in rendered
  /\ uploaded # None
  /\ Rerun("remove", None, FALSE, FALSE, NoUpstream)

ClickAnalyze ==
  /\ "analyze_button" \in rendered
  /\ calls < MaxCalls
  /\ \E up \in PageUpstream : Rerun("analyze", uploaded, TRUE, FALSE, up)

ClickDownloadReport ==
  /\ "report_button" \in rendered
  /\ Rerun("report", uploaded, FALSE, TRUE, NoUpstream)

\* any other interaction reruns the script with no button pressed (the
\* click on the download button among them)
Refresh ==
  /\ rendered # {}
  /\ Rerun("refresh", uploaded, FALSE, FALSE, NoUpstream)

DirectCall ==
  /\ lastEvent = "call"
  /\ \E r \in { analyze_rooftop_with_ai(apiKey, uploaded[1], upstream) } :
         /\ ret' = Some(r.ret)
         /\ callsThisRun' = r.calls
         /\ calls' = calls + r.calls
  /\ lastEvent' = "returned"
  /\ UNCHANGED << apiKey, uploaded, session, rendered, crash, upstream,
                  report_json, prevSession, lastSuccess >>

Next ==
  \/ Load
  \/ Upload
  \/ RemoveUpload
  \/ ClickAnalyze
  \/ ClickDownloadReport
  \/ Refresh
  \/ DirectCall

Spec == Init /\ [][Next]_vars

\* --------------------------------------------------------------- claims
\* analyze_rooftop_with_ai was invoked in the last step and returned
Analysed == lastEvent \in {"analyze", "returned"} /\ ret # None

\* the endpoint was called and answered with this text
ReplyText == upstream.content[1]
GotReply ==
  /\ Analysed
  /\ callsThisRun = 1
  /\ upstream.kind = "reply"
  /\ upstream.content # None

\* the Result Presenter was handed a record in the last run
ResultShown == "results_header" \in rendered

\* C1: when the call to the endpoint raises, analyze_rooftop_with_ai
\* returns no record and the message "Error analyzing image: <str(e)>",
\* the page reports the failure, and the `analysis` slot is what it was
\* before the click.
C1_UpstreamErrorCaught ==
  (Analysed /\ callsThisRun = 1 /\ upstream.kind = "raise") =>
    /\ ret[1].analysis = None
    /\ ret[1].error = Some(<<ErrorPrefix>> \o upstream.exc)
    /\ lastEvent = "analyze" =>
         /\ "analysis_failed" \in rendered
         /\ session = prevSession

\* an Analyze click whose call raised while the slot held a record
C1_Witness ==
  /\ lastEvent = "analyze"
  /\ callsThisRun = 1
  /\ upstream.kind = "raise"
  /\ session # None
  /\ "analysis_failed" \in rendered

\* C2: the page follows Idle -> ImageReady -> Analyzing -> ResultReady;
\* after a new upload, and after a failed analysis, the session is in
\* ImageReady: no analysis result reaches the Result Presenter or the
\* download action.
C2_ImageReadyShowsNoResult ==
  /\ lastEvent = "upload" => ~ResultShown /\ "report_button" \notin rendered
  /\ (lastEvent = "analyze" /\ ret # None /\ ret[1].error # None) =>
       ~ResultShown /\ "report_button" \notin rendered

\* C3: every Analyze click (every invocation of the analysis) makes
\* exactly one call to the endpoint, and no other run makes any.
C3_ExactlyOneCall ==
  /\ Analysed => callsThisRun = 1
  /\ ~Analysed => callsThisRun = 0

\* C4: for a reply text with no `{` in it, with or without a `}`, the
\* return is no record and the parse error message followed by the reply
\* text, unchanged.
C4_NoBraceIsParseError ==
  (GotReply /\ Find(ReplyText, LBRACE) = -1) =>
    /\ ret[1].analysis = None
    /\ ret[1].error # None
    /\ Head(ret[1].error[1]) = ParseErrorPrefix
    /\ Tail(ret[1].error[1]) = ReplyText

\* a reply that has no `{` and ends in `}`: the slice taken is that `}`
C4_Witness ==
  /\ GotReply
  /\ Find(ReplyText, LBRACE) = -1
  /\ Len(ReplyText) >= 2
  /\ ReplyText[Len(ReplyText)] = RBRACE
  /\ ret[1].error # None

\* prose: some text, at least one character of it plain, with no JSON
\* object in it
IsProse(s) ==
  /\ \E k \in 1..Len(s) : s[k] = PROSE
  /\ \A i, j \in 1..Len(s) : ~WellFormed(SubSeq(s, i, j))

\* C5: for a reply made of prose, one well-formed JSON object and prose
\* again, the return is that object and no error.
C5_ObjectBetweenProse ==
  GotReply =>
    \A i, j \in 1..Len(ReplyText) :
      ( /\ WellFormed(SubSeq(ReplyText, i, j))
        /\ IsProse(SubSeq(ReplyText, 1, i - 1))
        /\ IsProse(SubSeq(ReplyText, j + 1, Len(ReplyText))) ) =>
        ret[1] = [analysis |-> Some(JsonLoads(SubSeq(ReplyText, i, j)).value),
                  error |-> None]

\* C6: with OPENROUTER_API_KEY unset or empty every run of the script
\* stops at the check: the page shows the error only, never the file
\* picker or the Analyze button, and the endpoint is never called.
C6_MissingKeyHalts ==
  (apiKey = None \/ apiKey = Some("")) =>
    /\ rendered \subseteq {"key_error"}
    /\ lastEvent # "none" => rendered = {"key_error"}
    /\ calls = 0
    /\ ret = None
    /\ session = None

\* the script has run again on a page opened with the key set to ""
C6_Witness ==
  /\ apiKey = Some("")
  /\ lastEvent = "refresh"
  /\ rendered = {"key_error"}

\* C7: the `analysis` slot is absent until an Analyze click gets a record
\* back, and from then on it holds the record the latest such click got
\* back, whole.
C7_SlotIsLastSuccess ==
  /\ lastSuccess = None => session = None
  /\ lastSuccess # None => session = Some(lastSuccess)

\* a record with fewer keys has replaced a record with more
C7_Witness ==
  /\ lastEvent = "analyze"
  /\ prevSession # None
  /\ session # None
  /\ session[1] # None
  /\ prevSession[1] # None
  /\ Keys(session[1][1]) # Keys(prevSession[1][1])
  /\ Keys(session[1][1]) \subseteq Keys(prevSession[1][1])

\* dict equality: the same keys with equal values, in any order
DeepEqual(a, b) ==
  /\ Keys(a) = Keys(b)
  /\ \A k \in Keys(a) : Get(a, k) = Get(b, k)

\* C8: the text Download Report produces parses, the parsed record is
\* deeply equal to the record in the `analysis` slot, and producing it
\* leaves the slot as it was.
C8_ReportRoundTrip ==
  report_json # None =>
    /\ session # None
    /\ session[1] # None
    /\ JsonLoads(report_json[1]).ok
    /\ DeepEqual(JsonLoads(report_json[1]).value, session[1][1])
    /\ session = prevSession

\* a report of a record that holds a NaN
C8_Witness ==
  /\ lastEvent = "report"
  /\ report_json # None
  /\ "download_button" \in rendered
  /\ Get(session[1][1], "annual_savings") = NaN

\* the slot holds a record without one of the fields the presenter reads
LacksField ==
  /\ session # None
  /\ session[1] # None
  /\ FieldNames \ Keys(session[1][1]) # {}

\* every field the record has renders
PresentFieldsRender ==
  \A k \in Keys(session[1][1]) : FieldFailure(session[1][1], k) = "ok"

IsDict(d) == \A i, j \in 1..Len(d) : d[i][1] = d[j][1] => i = j

\* C10: analyze_rooftop_with_ai returns either a record (a dict) and None,
\* or None and a non-empty message; the caller's `if error:` is true
\* exactly when no record came back, and the slot never holds None.
C10_ExactlyOneComponent ==
  /\ ret # None =>
       /\ \/ /\ ret[1].analysis # None
             /\ IsDict(ret[1].analysis[1])
             /\ ret[1].error = None
          \/ /\ ret[1].analysis = None
             /\ ret[1].error # None
             /\ ret[1].error[1] # <<>>
       /\ Truthy(ret[1].error) <=> ret[1].analysis = None
  /\ session # Some(None)

\* the call raised an exception whose str() is empty
C10_Witness ==
  /\ Analysed
  /\ callsThisRun = 1
  /\ upstream.kind = "raise"
  /\ upstream.exc = <<>>
  /\ ret[1].error # None

====
